---- MODULE Spec2Model ----
(***************************************************************************)
(* latch-top (src/latch_top.py): a one-shot cgroup-relative resource       *)
(* reporter.  The model covers the module-level environment validation,    *)
(* the cgroup memory.stat parser, ProcessInfo, ProcessStats (constructor,  *)
(* update(), print()) and the si_unit formatter.                           *)
(*                                                                         *)
(* Floats are modelled as exact rationals <<numerator, denominator>> in    *)
(* lowest terms with a positive denominator.  CPU seconds, resident bytes  *)
(* and clock readings are small naturals (ticks).                          *)
(***************************************************************************)
EXTENDS Integers, Sequences, FiniteSets

\* ------------------------------------------------------------------ bounds
MaxPid == 2
MaxRes == 2
MaxCpu == 1
MaxStep == 2
MaxSamples == 3
MaxDigits == 9

VARIABLES
    platform,                 \* sys.platform
    psutil_ok,                \* whether "import psutil" succeeds
    memory_stat,              \* /sys/fs/cgroup/memory/memory.stat as seen by open()
    pc,                       \* position of the program
    exit_code,                \* -1 while running, else the process exit status
    stdout,                   \* what has been printed, as a sequence of tags
    err,                      \* "none", or the uncaught exception (traceback on stderr)
    memory_limit_bytes,
    buff_cache_bytes,
    used_memory_bytes,
    previous_total_sys_time,
    previous_total_user_time,
    total_sys_time,
    total_user_time,
    timestamp,
    previous_timestamp,
    processes,                \* OrderedDict[int, ProcessInfo]: records in insertion order
    proc_iter,                \* what psutil.process_iter() yielded in the latest update()
    nsamples,                 \* number of update() calls entered
    report,                   \* what print() rendered, or None
    si_num,                   \* argument of si_unit
    si_str                    \* result of si_unit, or None

engine_vars == <<memory_limit_bytes, buff_cache_bytes, used_memory_bytes,
                 previous_total_sys_time, previous_total_user_time,
                 total_sys_time, total_user_time, timestamp, previous_timestamp,
                 processes, proc_iter, nsamples>>
env_vars == <<platform, psutil_ok, memory_stat>>
si_vars == <<si_num, si_str>>
vars == <<env_vars, pc, exit_code, stdout, err, engine_vars, report, si_vars>>

None == [none |-> TRUE]

\* ------------------------------------------------------- float arithmetic
Abs(x) == IF x < 0 THEN -x ELSE x

RECURSIVE GCD(_, _)
GCD(a, b) == IF b = 0 THEN a ELSE GCD(b, a % b)

\* the float n / d, d # 0
Div(n, d) ==
    LET g == GCD(Abs(n), Abs(d))
        s == IF d < 0 THEN -1 ELSE 1
    IN  <<(s * n) \div g, (s * d) \div g>>

\* the float q * k
Mul(q, k) == Div(q[1] * k, q[2])

Zero == Div(0, 1)

Less(a, b) == a[1] * b[2] < b[1] * a[2]

\* ------------------------------------------------------ memory.stat parser
Digits == {"0", "1", "2", "3", "4", "5", "6", "7", "8", "9"}

DigitVal(c) ==
    CASE c = "0" -> 0 [] c = "1" -> 1 [] c = "2" -> 2 [] c = "3" -> 3
      [] c = "4" -> 4 [] c = "5" -> 5 [] c = "6" -> 6 [] c = "7" -> 7
      [] c = "8" -> 8 [] c = "9" -> 9

\* the longest prefix of digits of a text: group(1) of "<name> (\d+)"
RECURSIVE DigitPrefix(_)
DigitPrefix(txt) ==
    IF txt = <<>> \/ Head(txt) \notin Digits THEN <<>>
    ELSE <<Head(txt)>> \o DigitPrefix(Tail(txt))

\* int(value) of a string of digits
RECURSIVE IntOf(_)
IntOf(ds) ==
    IF ds = <<>> THEN 0
    ELSE IntOf(SubSeq(ds, 1, Len(ds) - 1)) * 10 + DigitVal(ds[Len(ds)])

\* A field of the content: whether "<name> " occurs in it, and the text that
\* follows the occurrence.
Absent == [found |-> FALSE, text |-> <<>>]
Field(txt) == [found |-> TRUE, text |-> txt]

\* re.search(r"<name> (\d+)", content): the match and its group(1)
Search(field) ==
    IF field.found /\ DigitPrefix(field.text) # <<>>
    THEN [match |-> TRUE, group1 |-> DigitPrefix(field.text)]
    ELSE [match |-> FALSE, group1 |-> <<>>]

\* parse_memory_stat_content falling back to 0 when the field is not found
parse_memory_stat_content_default(field) ==
    LET m == Search(field)
    IN  [exit |-> FALSE, value |-> IF m.match THEN IntOf(m.group1) ELSE 0, msg |-> ""]

\* parse_memory_stat_content: the int, or SystemExit(1) after a message
parse_memory_stat_content(field) ==
    LET m == Search(field)
    IN  IF m.match
        THEN [exit |-> FALSE, value |-> IntOf(m.group1), msg |-> ""]
        ELSE [exit |-> TRUE, value |-> 0, msg |-> "Error: not found"]

LimitTexts == {Absent, Field(<<"m", "a", "x">>), Field(<<"0">>), Field(<<"2">>)}
CacheTexts == {Absent, Field(<<"-", "1">>), Field(<<"1", "x">>)}
MemoryStats ==
    [open : {"ok", "FileNotFoundError", "PermissionError"},
     hierarchical_memory_limit : LimitTexts, total_cache : CacheTexts]

\* -------------------------------------------------------------- ProcessInfo
\* ProcessInfo.__init__ with the previous CPU times starting at zero
ProcessInfo_zero_baseline(pid, res, sys_time, user_time) ==
    [pid |-> pid,
     res |-> res,
     previous_sys_time |-> 0,
     previous_user_time |-> 0,
     sys_time |-> sys_time,
     user_time |-> user_time,
     percent_cpu |-> Zero,
     percent_mem |-> Zero]

\* ProcessInfo.__init__
ProcessInfo(pid, res, sys_time, user_time) ==
    [pid |-> pid,
     res |-> res,
     previous_sys_time |-> sys_time,
     previous_user_time |-> user_time,
     sys_time |-> sys_time,
     user_time |-> user_time,
     percent_cpu |-> Zero,
     percent_mem |-> Zero]

\* ProcessInfo.update_stats computing percent_cpu before the previous CPU
\* times are rotated
update_stats_stale_previous(self, new_sys_time, new_user_time, new_res, limit, total_cpu_time) ==
    LET s1 == [self EXCEPT !.previous_sys_time = self.sys_time,
                           !.previous_user_time = self.user_time,
                           !.sys_time = new_sys_time,
                           !.user_time = new_user_time,
                           !.res = new_res]
        delta == s1.sys_time - self.previous_sys_time
                 + s1.user_time - self.previous_user_time
    IN  IF total_cpu_time = 0
        THEN [rec |-> s1, raised |-> TRUE]
        ELSE LET s2 == [s1 EXCEPT !.percent_cpu = Mul(Div(delta, total_cpu_time), 100)]
             IN  IF limit = 0
                 THEN [rec |-> s2, raised |-> TRUE]
                 ELSE [rec |-> [s2 EXCEPT !.percent_mem = Mul(Div(s2.res, limit), 100)],
                       raised |-> FALSE]

\* ProcessInfo.update_stats; raises ZeroDivisionError at the first division by
\* zero, leaving the fields assigned before it
update_stats(self, new_sys_time, new_user_time, new_res, limit, total_cpu_time) ==
    LET s1 == [self EXCEPT !.previous_sys_time = self.sys_time,
                           !.previous_user_time = self.user_time,
                           !.sys_time = new_sys_time,
                           !.user_time = new_user_time,
                           !.res = new_res]
        delta == s1.sys_time - s1.previous_sys_time
                 + s1.user_time - s1.previous_user_time
    IN  IF total_cpu_time = 0
        THEN [rec |-> s1, raised |-> TRUE]
        ELSE LET s2 == [s1 EXCEPT !.percent_cpu = Mul(Div(delta, total_cpu_time), 100)]
             IN  IF limit = 0
                 THEN [rec |-> s2, raised |-> TRUE]
                 ELSE [rec |-> [s2 EXCEPT !.percent_mem = Mul(Div(s2.res, limit), 100)],
                       raised |-> FALSE]

\* -------------------------------------------------------------- OrderedDict
\* index of the record of pid in the table, 0 when pid is no key
IndexOf(procs, pid) ==
    IF \E i \in 1..Len(procs) : procs[i].pid = pid
    THEN CHOOSE i \in 1..Len(procs) : procs[i].pid = pid
    ELSE 0

Pids(procs) == {procs[i].pid : i \in 1..Len(procs)}

\* ------------------------------------------------- psutil.process_iter()
\* One live process as psutil reports it.  gone: the process exits between
\* being enumerated and being read, so memory_full_info() raises NoSuchProcess.
\* MaxCpu bounds the cumulative CPU seconds (system plus user) of a process.
Present == {p \in [gone : {FALSE}, rss : 1..MaxRes, system : 0..MaxCpu, user : 0..MaxCpu] :
               p.system + p.user <= MaxCpu}
Gone == [gone |-> TRUE, rss |-> 0, system |-> 0, user |-> 0]
NotRunning == [gone |-> FALSE, rss |-> 0, system |-> 0, user |-> 0]
ProcStates == Present \cup {Gone, NotRunning}

\* process_iter yields the live processes in increasing pid order
SnapOf(f) ==
    LET all == [p \in 1..MaxPid |-> [pid |-> p, gone |-> f[p].gone, rss |-> f[p].rss,
                                     system |-> f[p].system, user |-> f[p].user]]
        Live(e) == f[e.pid] # NotRunning
    IN  SelectSeq(all, Live)

Snaps == {SnapOf(f) : f \in [1..MaxPid -> ProcStates]}

\* ------------------------------------------------------------ ProcessStats
\* the body of the for loop of update() for the processes snap[i..], from the
\* loop state st; stops at the first exception
RECURSIVE UpdateLoop(_, _, _, _, _)
UpdateLoop(st, snap, i, limit, elapsed) ==
    IF i > Len(snap) THEN st
    ELSE
      LET process == snap[i] IN
      IF process.gone
      THEN [st EXCEPT !.err = "NoSuchProcess"]
      ELSE
        LET acc == [st EXCEPT !.used = st.used + process.rss,
                              !.tsys = st.tsys + process.system,
                              !.tuser = st.tuser + process.user]
            k == IndexOf(st.procs, process.pid)
        IN  IF k = 0
            THEN UpdateLoop(
                   [acc EXCEPT !.procs = Append(st.procs,
                        ProcessInfo(process.pid, process.rss, process.system,
                                    process.user))],
                   snap, i + 1, limit, elapsed)
            ELSE
              LET u == update_stats(st.procs[k], process.system, process.user,
                                    process.rss, limit, elapsed)
                  upd == [acc EXCEPT !.procs = [st.procs EXCEPT ![k] = u.rec]]
              IN  IF u.raised
                  THEN [upd EXCEPT !.err = "ZeroDivisionError"]
                  ELSE UpdateLoop(upd, snap, i + 1, limit, elapsed)

\* ProcessStats.update() reading the clock at now and enumerating snap; next is
\* where the program goes when update() returns
update(now, snap, next) ==
    LET r == UpdateLoop([procs |-> processes, used |-> 0, tsys |-> 0, tuser |-> 0,
                         err |-> "none"],
                        snap, 1, memory_limit_bytes, now - timestamp)
    IN  /\ previous_timestamp' = timestamp
        /\ timestamp' = now
        /\ previous_total_sys_time' = total_sys_time
        /\ previous_total_user_time' = total_user_time
        /\ used_memory_bytes' = r.used
        /\ total_sys_time' = r.tsys
        /\ total_user_time' = r.tuser
        /\ processes' = r.procs
        /\ proc_iter' = snap
        /\ nsamples' = nsamples + 1
        /\ err' = r.err
        /\ IF r.err = "none"
           THEN pc' = next /\ exit_code' = exit_code
           ELSE pc' = "exit" /\ exit_code' = 1
        /\ UNCHANGED <<memory_limit_bytes, buff_cache_bytes, stdout, report,
                       env_vars, si_vars>>

\* ------------------------------------------------------------------ si_unit
Units == <<"B", "k", "M", "G", "T", "P", "E", "Z">>

\* The float num of si_unit is digits / 1000^shift, digits being a natural in
\* base 1000, most significant digit first and without leading zeros.
\* abs(num) < 1000
Below1000(digits, shift) == Len(digits) - shift <= 1

\* the for loop of si_unit from its i-th unit on
RECURSIVE si_loop(_, _, _)
si_loop(digits, shift, i) ==
    IF Below1000(digits, shift)
    THEN [digits |-> digits, shift |-> shift, unit |-> Units[i]]
    ELSE IF i = Len(Units)
         THEN [digits |-> digits, shift |-> shift + 1, unit |-> Units[i]]
         ELSE si_loop(digits, shift + 1, i + 1)

si_unit(num) == si_loop(num, 0, 1)

\* an int as base-1000 digits
RECURSIVE Base1000(_)
Base1000(n) == IF n < 1000 THEN <<n>> ELSE Append(Base1000(n \div 1000), n % 1000)

\* ------------------------------------------------------------------ sorted
\* the comparison for key = (percent_cpu, percent_mem)
KeyLess_cpu_first(x, y) ==
    \/ Less(x.percent_cpu, y.percent_cpu)
    \/ x.percent_cpu = y.percent_cpu /\ Less(x.percent_mem, y.percent_mem)

\* x.key < y.key for key = (percent_mem, percent_cpu), as Python compares tuples
KeyLess(x, y) ==
    \/ Less(x.percent_mem, y.percent_mem)
    \/ x.percent_mem = y.percent_mem /\ Less(x.percent_cpu, y.percent_cpu)

\* x placed into the descending sequence s behind every element that is not
\* smaller: equal keys keep their order
InsertDesc(s, x) ==
    LET ahead == {i \in 1..Len(s) : ~KeyLess(s[i], x)}
        n == Cardinality(ahead)
    IN  SubSeq(s, 1, n) \o <<x>> \o SubSeq(s, n + 1, Len(s))

\* sorted(values, key=..., reverse=True)
RECURSIVE sorted_reverse(_)
sorted_reverse(values) ==
    IF values = <<>> THEN <<>>
    ELSE InsertDesc(sorted_reverse(SubSeq(values, 1, Len(values) - 1)),
                    values[Len(values)])

\* ----------------------------------------------------------------- actions
Exit(code, printed, exc) ==
    /\ pc' = "exit"
    /\ exit_code' = code
    /\ stdout' = stdout \o printed
    /\ err' = exc

\* module level: import psutil, platform test, abort when errors were gathered
Import ==
    /\ pc = "import"
    /\ LET e1 == IF psutil_ok THEN <<>> ELSE <<"Missing required module psutil">>
           e2 == IF platform = "linux" THEN <<>> ELSE <<"Unsupported platform">>
           errors == e1 \o e2
       IN  IF Len(errors) > 0
           THEN Exit(1, <<"ERROR!">> \o errors, "none")
           ELSE /\ pc' = "construct"
                /\ UNCHANGED <<exit_code, stdout, err>>
    /\ UNCHANGED <<env_vars, engine_vars, report, si_vars>>

\* ProcessStats.__init__ up to its first update(): open, read and parse
LoadLimits ==
    /\ pc = "construct"
    /\ LET limit == parse_memory_stat_content(memory_stat.hierarchical_memory_limit)
           cache == parse_memory_stat_content(memory_stat.total_cache)
       IN  CASE memory_stat.open = "FileNotFoundError" ->
                  /\ Exit(1, <<"Error: file not found">>, "none")
                  /\ UNCHANGED <<memory_limit_bytes, buff_cache_bytes>>
             [] memory_stat.open = "PermissionError" ->
                  /\ Exit(1, <<>>, "PermissionError")
                  /\ UNCHANGED <<memory_limit_bytes, buff_cache_bytes>>
             [] memory_stat.open = "ok" /\ limit.exit ->
                  /\ Exit(1, <<limit.msg>>, "none")
                  /\ UNCHANGED <<memory_limit_bytes, buff_cache_bytes>>
             [] memory_stat.open = "ok" /\ ~limit.exit /\ cache.exit ->
                  /\ Exit(1, <<cache.msg>>, "none")
                  /\ memory_limit_bytes' = limit.value
                  /\ UNCHANGED buff_cache_bytes
             [] OTHER ->
                  /\ memory_limit_bytes' = limit.value
                  /\ buff_cache_bytes' = cache.value
                  /\ pc' = "update"
                  /\ UNCHANGED <<exit_code, stdout, err>>
    /\ UNCHANGED <<env_vars, used_memory_bytes, previous_total_sys_time,
                   previous_total_user_time, total_sys_time, total_user_time,
                   timestamp, previous_timestamp, processes, proc_iter, nsamples,
                   report, si_vars>>

\* the first update() of the constructor; time.time() is positive, and only
\* the differences of the later readings to it are used
FirstUpdate ==
    /\ pc = "update"
    /\ \E now \in {1}, snap \in Snaps : update(now, snap, "sleep")

\* time.sleep(0.5) and the second update() of the constructor
WarmupUpdate ==
    /\ pc = "sleep"
    /\ \E now \in (timestamp + 1)..(timestamp + MaxStep), snap \in Snaps :
          update(now, snap, "ready")

\* a further update() on the constructed engine, the clock possibly unchanged
Resample ==
    /\ pc = "ready"
    /\ nsamples < MaxSamples
    /\ \E now \in timestamp..(timestamp + MaxStep), snap \in Snaps :
          update(now, snap, "ready")

\* the aggregate CPU figure of print()
cpu_utilization_percentage ==
    Div(total_sys_time - previous_total_sys_time
        + total_user_time - previous_total_user_time,
        timestamp - previous_timestamp)

\* ProcessStats.print(), then the end of the script
print_report ==
    /\ pc = "ready"
    /\ IF memory_limit_bytes = 0 \/ timestamp - previous_timestamp = 0
       THEN /\ Exit(1, <<>>, "ZeroDivisionError")
            /\ UNCHANGED report
       ELSE LET total_memory_usage == used_memory_bytes + buff_cache_bytes IN
            /\ report' =
                 [memory_utilzation |-> <<si_unit(Base1000(total_memory_usage)),
                                          si_unit(Base1000(memory_limit_bytes))>>,
                  memory_utilization_percentage |->
                      Mul(Div(total_memory_usage, memory_limit_bytes), 100),
                  cpu_utilization_percentage |-> cpu_utilization_percentage,
                  rows |-> sorted_reverse(processes)]
            /\ Exit(0, <<"report">>, "none")
    /\ UNCHANGED <<env_vars, engine_vars, si_vars>>

\* ------------------------------------------------------------ specification
SiDigits == {0, 1, 999}
SiNums ==
    {<<0>>} \cup
    UNION {{d \in [1..n -> SiDigits] : d[1] # 0} : n \in 1..MaxDigits}

EngineInit ==
    /\ exit_code = -1
    /\ stdout = <<>>
    /\ err = "none"
    /\ memory_limit_bytes = 0
    /\ buff_cache_bytes = 0
    /\ used_memory_bytes = 0
    /\ previous_total_sys_time = 0
    /\ previous_total_user_time = 0
    /\ total_sys_time = 0
    /\ total_user_time = 0
    /\ timestamp = 0
    /\ previous_timestamp = 0
    /\ processes = <<>>
    /\ proc_iter = <<>>
    /\ nsamples = 0
    /\ report = None
    /\ si_str = None

Init ==
    /\ platform \in {"linux", "darwin"}
    /\ psutil_ok \in BOOLEAN
    /\ memory_stat \in MemoryStats
    /\ pc = "import"
    /\ si_num = <<0>>
    /\ EngineInit

Next == Import \/ LoadLimits \/ FirstUpdate \/ WarmupUpdate \/ Resample \/ print_report

Spec == Init /\ [][Next]_vars

\* si_unit on its own: one call for each argument
Format ==
    /\ pc = "si_unit"
    /\ si_str = None
    /\ si_str' = si_unit(si_num)
    /\ UNCHANGED <<env_vars, pc, exit_code, stdout, err, engine_vars, report, si_num>>

InitSI ==
    /\ platform = "linux"
    /\ psutil_ok = TRUE
    /\ memory_stat = [open |-> "ok", hierarchical_memory_limit |-> Absent,
                      total_cache |-> Absent]
    /\ pc = "si_unit"
    /\ si_num \in SiNums
    /\ EngineInit

NextSI == Format

SpecSI == InitSI /\ [][NextSI]_vars

\* =================================================================== claims
\* an update() has returned and nothing has been raised since
SampleCompleted == nsamples > 0 /\ err = "none"

\* a step that is an update() call that returned
UpdateReturned == nsamples' = nsamples + 1 /\ err' = "none"

Record(procs, pid) == procs[IndexOf(procs, pid)]

RECURSIVE SumOver(_, _)
SumOver(procs, field) ==
    IF procs = <<>> THEN 0 ELSE Head(procs)[field] + SumOver(Tail(procs), field)

\* C1: the aggregate CPU figure of the report is
\* (delta total_sys + delta total_user) / elapsed_seconds * 100.
C1_AggregateCpuIsPercent ==
    report # None =>
        report.cpu_utilization_percentage =
            Mul(Div((total_sys_time - previous_total_sys_time)
                    + (total_user_time - previous_total_user_time),
                    timestamp - previous_timestamp), 100)

\* C2: after a completed sample(), every record of the table has
\* percent_mem = resident_bytes / memory_limit_bytes * 100, a record first seen
\* in the latest sample included.
C2_PercentMemOfEveryRecord ==
    (SampleCompleted /\ memory_limit_bytes # 0) =>
        \A i \in 1..Len(processes) :
            processes[i].percent_mem =
                Mul(Div(processes[i].res, memory_limit_bytes), 100)

\* C3: a record whose pid is in the table when a sample() enumerates it has,
\* after that sample, percent_cpu = ((sys_time - previous_sys_time) +
\* (user_time - previous_user_time)) / (timestamp - previous_timestamp) * 100,
\* previous_* being the CPU values the record held before the sample and the
\* sys_time, user_time the ones just read.
C3_PercentCpuOnUpdate ==
    [][UpdateReturned =>
        \A i \in 1..Len(proc_iter') :
            LET e == proc_iter'[i] IN
            IndexOf(processes, e.pid) # 0 =>
                LET old == Record(processes, e.pid)
                    new == Record(processes', e.pid)
                IN  /\ new.previous_sys_time = old.sys_time
                    /\ new.previous_user_time = old.user_time
                    /\ new.sys_time = e.system
                    /\ new.user_time = e.user
                    /\ previous_timestamp' = timestamp
                    /\ new.percent_cpu =
                         Mul(Div((new.sys_time - new.previous_sys_time)
                                 + (new.user_time - new.previous_user_time),
                                 timestamp' - previous_timestamp'), 100)]_vars

\* C3 witness: a record updated with a CPU delta of 1 over 2 seconds shows 50.
C3_Witness ==
    /\ pc = "ready"
    /\ timestamp - previous_timestamp = 2
    /\ \E i \in 1..Len(processes) :
          /\ processes[i].pid \in {proc_iter[j].pid : j \in 1..Len(proc_iter)}
          /\ (processes[i].sys_time - processes[i].previous_sys_time)
             + (processes[i].user_time - processes[i].previous_user_time) = 1
          /\ processes[i].percent_cpu = Div(50, 1)

\* C4: a pid that a sample() sees for the first time gets a record with
\* percent_cpu = 0.0 and previous CPU fields equal to the current ones, whatever
\* its CPU times; the records already in the table keep their place, and those
\* not enumerated are unchanged.
C4_FirstSighting ==
    [][UpdateReturned =>
        /\ \A i \in 1..Len(proc_iter') :
              LET e == proc_iter'[i] IN
              IndexOf(processes, e.pid) = 0 =>
                  /\ IndexOf(processes', e.pid) > Len(processes)
                  /\ LET new == Record(processes', e.pid)
                     IN  /\ new.percent_cpu = Div(0, 1)
                         /\ new.sys_time = e.system
                         /\ new.user_time = e.user
                         /\ new.previous_sys_time = new.sys_time
                         /\ new.previous_user_time = new.user_time
        /\ Len(processes') >= Len(processes)
        /\ \A k \in 1..Len(processes) :
              /\ processes'[k].pid = processes[k].pid
              /\ (\A i \in 1..Len(proc_iter') : proc_iter'[i].pid # processes[k].pid)
                    => processes'[k] = processes[k]]_vars

\* C4 witness: the second sample inserted a pid with CPU time already used,
\* next to a record of the first sample that it did not enumerate.
C4_Witness ==
    /\ pc = "ready"
    /\ nsamples = 2
    /\ Len(processes) = 2
    /\ Len(proc_iter) = 1
    /\ proc_iter[1].pid = processes[2].pid
    /\ processes[2].sys_time + processes[2].user_time > 0
    /\ processes[2].previous_sys_time = processes[2].sys_time
    /\ processes[2].previous_user_time = processes[2].user_time
    /\ processes[2].percent_cpu = Div(0, 1)

\* C5: a process that exits between being enumerated and being read is skipped:
\* the sampling pass raises nothing and covers the remaining processes.
C5_VanishedProcessSkipped ==
    (\E i \in 1..Len(proc_iter) : proc_iter[i].gone) =>
        /\ err # "NoSuchProcess"
        /\ \A j \in 1..Len(proc_iter) :
              ~proc_iter[j].gone => proc_iter[j].pid \in Pids(processes)

\* the text holds "<name> <digits>"
HasInteger(field) ==
    field.found /\ field.text # <<>> /\ Head(field.text) \in Digits

SetupFailure ==
    \/ platform # "linux"
    \/ ~psutil_ok
    \/ memory_stat.open # "ok"
    \/ ~HasInteger(memory_stat.hierarchical_memory_limit)
    \/ ~HasInteger(memory_stat.total_cache)

\* C6: every setup failure ends the run with exit code 1 after a diagnostic,
\* before any sample() and without a report; nothing is retried and no limit
\* is substituted.
C6_SetupFailureIsFatal ==
    SetupFailure =>
        /\ pc \in {"import", "construct", "exit"}
        /\ nsamples = 0
        /\ report = None
        /\ \A i \in 1..Len(stdout) : stdout[i] # "report"
        /\ pc # "exit" => ENABLED (Import \/ LoadLimits)
        /\ pc = "exit" =>
              /\ exit_code = 1
              /\ stdout # <<>> \/ err # "none"

\* C6 witness: the run ended on a memory.stat without hierarchical_memory_limit.
C6_Witness ==
    /\ pc = "exit"
    /\ exit_code = 1
    /\ platform = "linux"
    /\ psutil_ok
    /\ memory_stat.open = "ok"
    /\ ~memory_stat.hierarchical_memory_limit.found
    /\ stdout = <<"Error: not found">>
    /\ nsamples = 0

\* (percent_mem, percent_cpu) of x is larger than that of y, percent_mem first
PairGreater(x, y) ==
    \/ x.percent_mem[1] * y.percent_mem[2] > y.percent_mem[1] * x.percent_mem[2]
    \/ /\ x.percent_mem = y.percent_mem
       /\ x.percent_cpu[1] * y.percent_cpu[2] > y.percent_cpu[1] * x.percent_cpu[2]

PairEqual(x, y) == x.percent_mem = y.percent_mem /\ x.percent_cpu = y.percent_cpu

\* C7: the report lists the records of the table by (percent_mem, percent_cpu)
\* descending, percent_mem deciding first, and records equal on both in the
\* order in which their pids were inserted.
C7_ReportOrder ==
    report # None =>
        LET rows == report.rows IN
        /\ Len(rows) = Len(processes)
        /\ \A k \in 1..Len(processes) : \E i \in 1..Len(rows) : rows[i] = processes[k]
        /\ \A i, j \in 1..Len(rows) :
              i < j =>
                 \/ PairGreater(rows[i], rows[j])
                 \/ /\ PairEqual(rows[i], rows[j])
                    /\ IndexOf(processes, rows[i].pid) < IndexOf(processes, rows[j].pid)

\* C7 witness: the first row has the larger percent_mem and the smaller
\* percent_cpu, and was inserted after the second.
C7_Witness ==
    /\ report # None
    /\ Len(report.rows) = 2
    /\ report.rows[1].percent_mem = Div(100, 1)
    /\ report.rows[2].percent_mem = Div(50, 1)
    /\ report.rows[1].percent_cpu = Div(0, 1)
    /\ report.rows[2].percent_cpu = Div(100, 1)
    /\ IndexOf(processes, report.rows[1].pid) = 2

UnitIndex(u) == CHOOSE i \in 1..Len(Units) : Units[i] = u

\* C8: the suffix of si_unit(n) is the one whose position in (B, k, M, G, T, P,
\* E, Z) is the number of divisions by 1000 performed, and a division happens
\* only while the magnitude is >= 1000.
C8_SuffixCountsDivisions ==
    si_str # None =>
        /\ si_str.shift = UnitIndex(si_str.unit) - 1
        /\ si_str.shift > 0 => ~Below1000(si_str.digits, si_str.shift - 1)

\* C9: no CPU percentage is computed over a zero interval: a sample() at the
\* clock reading of the previous one divides nothing by zero.
C9_NoZeroInterval ==
    memory_limit_bytes # 0 => err # "ZeroDivisionError"

\* C10: after every completed sample() the aggregates are the sums over the
\* records of the table, which holds one record per pid.
C10_AggregatesMatchTable ==
    SampleCompleted =>
        /\ used_memory_bytes = SumOver(processes, "res")
        /\ total_sys_time = SumOver(processes, "sys_time")
        /\ total_user_time = SumOver(processes, "user_time")
        /\ Cardinality(Pids(processes)) = Len(processes)

====
